---- MODULE Spec2Model ----
(***************************************************************************)
(* A model of the AFAD earthquake scraper.                                 *)
(*                                                                         *)
(* Two classes are modelled, both named AfadEarthquakeScraper:             *)
(*   - "primary": src/afad_earthquake_scraper.py, which caches the last    *)
(*     scrape in self._data and exports from that cache;                   *)
(*   - "legacy":  src/afad_earthquakes_scraper.py, which keeps no cache    *)
(*     and whose exports call scrape_table themselves.                     *)
(* A behaviour is the life of one instance of one of the two classes.      *)
(*                                                                         *)
(* A text that the program parses, formats or compares character by        *)
(* character (the date/time text of a row, a file name, a directory) is a  *)
(* tuple of one-character strings; Join makes the TLA+ string of it.       *)
(***************************************************************************)
EXTENDS Integers, Sequences, FiniteSets, TLC

VARIABLES
    variant,    \* which class the instance is of: "primary" or "legacy"
    _data,      \* primary: self._data, None or a list of records
    scraped,    \* primary, history: "never" while no scrape_table call has
                \* returned, "latest" when the latest one did, "earlier"
                \* when one did and the latest one raised
    last        \* what the last call did: its name, arguments, the response
                \* its GET received, its outcome, its return value and its
                \* effects on the network and the file system

vars == <<variant, _data, scraped, last>>

----------------------------------------------------------------------------
(* Bounds of the model.                                                    *)

\* The largest number of <tr> rows in the <tbody> of a served page.
MaxRows == 3

----------------------------------------------------------------------------
(* Characters and strings.                                                 *)

Digits == <<"0", "1", "2", "3", "4", "5", "6", "7", "8", "9">>

IsDigit(c) == \E i \in 1..10 : Digits[i] = c

DigitVal(c) == (CHOOSE i \in 1..10 : Digits[i] = c) - 1

\* The Unicode code point of a character that occurs in an ISO-8601 string.
Code ==
    [c \in {"+", "-", ".", ":", "T"} \cup {Digits[i] : i \in 1..10} |->
        CASE c = "+" -> 43
          [] c = "-" -> 45
          [] c = "." -> 46
          [] c = ":" -> 58
          [] c = "T" -> 84
          [] OTHER   -> 48 + DigitVal(c)]

\* The first index from i on at which a and b differ, or 0 if the shorter
\* one ends first.
RECURSIVE FirstDifference(_, _, _)
FirstDifference(a, b, i) ==
    IF i > Len(a) \/ i > Len(b) THEN 0
    ELSE IF a[i] # b[i] THEN i
    ELSE FirstDifference(a, b, i + 1)

\* Python's str comparison a < b at the first difference i: by code point,
\* and a proper prefix is smaller.
LessAt(a, b, i) ==
    IF i = 0 THEN Len(a) < Len(b) ELSE Code[a[i]] < Code[b[i]]

StrLess(a, b) == LessAt(a, b, FirstDifference(a, b, 1))

StrLessEq(a, b) == a = b \/ StrLess(a, b)

\* The TLA+ string of a tuple of characters.
RECURSIVE Join(_)
Join(s) == IF s = <<>> THEN "" ELSE Head(s) \o Join(Tail(s))

Take(s, n) == SubSeq(s, 1, n)

Drop(s, n) == SubSeq(s, n + 1, Len(s))

RECURSIVE Reverse(_)
Reverse(s) == IF s = <<>> THEN <<>> ELSE Append(Reverse(Tail(s)), Head(s))

\* The length of the longest prefix of s made of digits.
RECURSIVE DigitRun(_)
DigitRun(s) ==
    IF s # <<>> /\ IsDigit(Head(s)) THEN 1 + DigitRun(Tail(s)) ELSE 0

\* The number a tuple of digits denotes.
RECURSIVE ToInt(_)
ToInt(s) ==
    IF s = <<>> THEN 0
    ELSE 10 * ToInt(Take(s, Len(s) - 1)) + DigitVal(s[Len(s)])

RECURSIVE Pow10(_)
Pow10(n) == IF n = 0 THEN 1 ELSE 10 * Pow10(n - 1)

\* n in decimal, zero-padded to w characters (Python's "%0wd").
RECURSIVE Pad(_, _)
Pad(n, w) ==
    IF w = 0 THEN <<>> ELSE Append(Pad(n \div 10, w - 1), Digits[(n % 10) + 1])

----------------------------------------------------------------------------
(* dateutil.parser.parse, on the texts of the shape the page carries:      *)
(*     D.D.YYYY HH:MM[:SS[.f]][+HH:MM | -HH:MM]                            *)
(* Any other text is refused (dateutil raises ParserError).  The result is *)
(* a datetime value; tz says whether it carries a tzinfo (it does exactly  *)
(* when the text holds a UTC offset), offset is that offset in minutes.    *)

NoDateTime == [ok |-> FALSE]

\* The text cut into tokens: each run of digits, and each other character.
RECURSIVE Tokens(_)
Tokens(s) ==
    IF s = <<>> THEN <<>>
    ELSE IF IsDigit(Head(s))
    THEN <<Take(s, DigitRun(s))>> \o Tokens(Drop(s, DigitRun(s)))
    ELSE <<<<Head(s)>>>> \o Tokens(Tail(s))

\* The kind of each token: "n" for a number, else the character itself.
Shape(tk) ==
    [i \in DOMAIN tk |-> IF IsDigit(tk[i][1]) THEN "n" ELSE tk[i][1]]

\* The number at token i, with at least lo and at most hi digits.
NumberAt(tk, i, lo, hi) ==
    IF Len(tk[i]) \in lo..hi THEN ToInt(tk[i]) ELSE 0 - 1

\* The tokens of "a.b.YYYY HH:MM", which every accepted text starts with.
BaseShape == <<"n", ".", "n", ".", "n", " ", "n", ":", "n">>

\* The number of tokens of the optional ":SS" and ".f" after token 9.
SecondsTokens(sh) ==
    IF Len(sh) >= 11 /\ sh[10] = ":" /\ sh[11] = "n"
    THEN IF Len(sh) >= 13 /\ sh[12] = "." /\ sh[13] = "n" THEN 4 ELSE 2
    ELSE 0

\* Whether the tokens after token `at` are a UTC offset "+HH:MM" / "-HH:MM".
IsOffset(sh, at) ==
    /\ Len(sh) = at + 4
    /\ sh[at + 1] \in {"+", "-"}
    /\ SubSeq(sh, at + 2, at + 4) = <<"n", ":", "n">>

\* The datetime of well-shaped tokens tk, ns of them holding the seconds;
\* a and b are the first two numbers of the date.  dateutil's default is
\* month first (dayfirst=False); a first number above 12 can only be the
\* day.  A fraction of a second is padded to microseconds.
datetime_of(tk, ns, a, b) ==
    [ok          |-> TRUE,
     year        |-> NumberAt(tk, 5, 4, 4),
     month       |-> IF a > 12 THEN b ELSE a,
     day         |-> IF a > 12 THEN a ELSE b,
     hour        |-> NumberAt(tk, 7, 1, 2),
     minute      |-> NumberAt(tk, 9, 2, 2),
     second      |-> IF ns >= 2 THEN NumberAt(tk, 11, 2, 2) ELSE 0,
     microsecond |-> IF ns = 4 /\ Len(tk[13]) <= 6
                     THEN ToInt(tk[13]) * Pow10(6 - Len(tk[13]))
                     ELSE IF ns = 4 THEN 0 - 1 ELSE 0,
     tz          |-> Len(tk) > 9 + ns,
     offset      |-> IF Len(tk) > 9 + ns
                     THEN (IF tk[10 + ns] = <<"-">> THEN 0 - 1 ELSE 1)
                          * (60 * NumberAt(tk, 11 + ns, 2, 2)
                             + NumberAt(tk, 13 + ns, 2, 2))
                     ELSE 0,
     offset_ok   |-> \/ Len(tk) = 9 + ns
                     \/ /\ NumberAt(tk, 11 + ns, 2, 2) \in 0..23
                        /\ NumberAt(tk, 13 + ns, 2, 2) \in 0..59]

\* Whether the fields of a datetime are all in range.
in_range(dt) ==
    /\ dt.year >= 1 /\ dt.month \in 1..12 /\ dt.day \in 1..31
    /\ dt.hour \in 0..23 /\ dt.minute \in 0..59 /\ dt.second \in 0..59
    /\ dt.microsecond >= 0 /\ dt.offset_ok

\* The datetime of a well-shaped text when its fields are in range.
checked(dt) ==
    IF in_range(dt)
    THEN [ok |-> TRUE, year |-> dt.year, month |-> dt.month, day |-> dt.day,
          hour |-> dt.hour, minute |-> dt.minute, second |-> dt.second,
          microsecond |-> dt.microsecond, tz |-> dt.tz, offset |-> dt.offset]
    ELSE NoDateTime

parse_tokens(tk, sh, ns) ==
    IF /\ Len(sh) >= 9 /\ SubSeq(sh, 1, 9) = BaseShape
       /\ (Len(sh) = 9 + ns \/ IsOffset(sh, 9 + ns))
    THEN checked(datetime_of(tk, ns, NumberAt(tk, 1, 1, 2),
                             NumberAt(tk, 3, 1, 2)))
    ELSE NoDateTime

shaped(tk, sh) == parse_tokens(tk, sh, SecondsTokens(sh))

tokenized(tk) == shaped(tk, Shape(tk))

parse(text) == tokenized(Tokens(text))

----------------------------------------------------------------------------
(* The datetime methods scrape_table calls on the parsed value.            *)

\* date.isoformat(): "YYYY-MM-DD".
date_isoformat(dt) ==
    Pad(dt.year, 4) \o <<"-">> \o Pad(dt.month, 2) \o <<"-">> \o Pad(dt.day, 2)

\* "HH:MM:SS", then ".ffffff" when the microsecond is not 0.
clock_isoformat(dt) ==
    Pad(dt.hour, 2) \o <<":">> \o Pad(dt.minute, 2) \o <<":">>
        \o Pad(dt.second, 2)
        \o (IF dt.microsecond # 0 THEN <<".">> \o Pad(dt.microsecond, 6)
            ELSE <<>>)

\* The "+HH:MM" / "-HH:MM" that isoformat() appends for an aware value.
utcoffset_isoformat(dt) ==
    IF ~dt.tz THEN <<>>
    ELSE LET m == IF dt.offset < 0 THEN 0 - dt.offset ELSE dt.offset
         IN  <<IF dt.offset < 0 THEN "-" ELSE "+">>
                 \o Pad(m \div 60, 2) \o <<":">> \o Pad(m % 60, 2)

\* datetime.isoformat(): date, "T", time of day, UTC offset if aware.
datetime_isoformat(dt) ==
    date_isoformat(dt) \o <<"T">> \o clock_isoformat(dt)
        \o utcoffset_isoformat(dt)

\* datetime.time(): the time of day with tzinfo dropped (timetz() keeps it).
datetime_time(dt) == [dt EXCEPT !.tz = FALSE, !.offset = 0]

\* str(time) is time.isoformat(): time of day, UTC offset if aware.
time_str(t) == clock_isoformat(t) \o utcoffset_isoformat(t)

----------------------------------------------------------------------------
(* The served page.                                                        *)

\* The date/time texts a row's first cell may carry.
Text_17_101500       == <<"1","7",".","0","3",".","2","0","2","4"," ",
                          "1","0",":","1","5",":","0","0">>
Text_16_090000       == <<"1","6",".","0","3",".","2","0","2","4"," ",
                          "0","9",":","0","0",":","0","0">>
Text_17_101500_plus3 == Text_17_101500 \o <<"+","0","3",":","0","0">>
Text_not_a_date      == <<"n","o","t","-","a","-","d","a","t","e">>

DateTexts ==
    {Text_17_101500, Text_16_090000, Text_17_101500_plus3, Text_not_a_date}

\* The id the source assigns to the row at position i of a page.
RowIds == <<"A", "B", "C", "D", "E", "F", "G", "H">>

\* The texts of the <td> cells of a row: date/time, latitude, longitude,
\* depth, type, magnitude, region, id.
Row(text, i) ==
    <<text, "38.2", "27.1", "7.0", "ML", "1.5", "Ege Denizi", RowIds[i]>>

\* What soup.find("table", {"class": "content-table"}) and table.tbody see:
\* no such table, a table with no <tbody>, or a table with rows.
NoTablePage == [table |-> "absent", rows |-> <<>>]

NoTbodyPage == [table |-> "no_tbody", rows |-> <<>>]

TablePages(n) ==
    {[table |-> "present", rows |-> [i \in DOMAIN ts |-> Row(ts[i], i)]] :
        ts \in UNION {[1..k -> DateTexts] : k \in 0..n}}

\* The body of a response with a success status.
Pages == {NoTablePage, NoTbodyPage} \cup TablePages(MaxRows)

\* The body of a response with a failure status: an error page, or a
\* table of at most one row all the same.
ErrorPages == {NoTablePage, NoTbodyPage} \cup TablePages(1)

\* What self._session.get(self._url) may return: response.ok and
\* response.content.
Responses ==
    {[ok |-> TRUE, content |-> pg] : pg \in Pages}
        \cup {[ok |-> FALSE, content |-> pg] : pg \in ErrorPages}

\* The value of last.response after a call that issued no GET.
NoResponse == [ok |-> FALSE, content |-> NoTablePage]

----------------------------------------------------------------------------
(* Row normalization and ordering.                                         *)

\* The keys of an EarthquakeRecord dict, in the order scrape_table inserts
\* them (the order json and csv emit them in).
FieldNames ==
    <<"id", "datetime", "date", "time", "latitude", "longitude", "depth",
      "type", "magnitude", "region">>

\* The three date/time values scrape_table derives from the parsed text:
\* date_time.isoformat(), date_time.date().isoformat(), str(date_time.time()).
date_fields(date_time) ==
    IF date_time.ok
    THEN [ok       |-> TRUE,
          datetime |-> Join(datetime_isoformat(date_time)),
          date     |-> Join(date_isoformat(date_time)),
          time     |-> Join(time_str(datetime_time(date_time)))]
    ELSE [ok |-> FALSE]

\* parser.parse and the three derived values, for each text a row may carry.
ParsedText == [text \in DateTexts |-> date_fields(parse(text))]

\* Whether parser.parse(tds[0].text) returns (it raises ParserError if not).
row_parses(tds) == ParsedText[tds[1]].ok

\* The dict scrape_table appends for one <tr>, f holding the values derived
\* from the text of its first cell; tds[-1] is the last cell.
record_of(tds, f) ==
    [id        |-> tds[Len(tds)],
     datetime  |-> f.datetime,
     date      |-> f.date,
     time      |-> f.time,
     latitude  |-> tds[2],
     longitude |-> tds[3],
     depth     |-> tds[4],
     type      |-> tds[5],
     magnitude |-> tds[6],
     region    |-> tds[7]]

row_record(tds) == record_of(tds, ParsedText[tds[1]])

\* The number of rows the for loop normalizes before it ends or raises.
RECURSIVE rows_parsed(_)
rows_parsed(rows) ==
    IF rows # <<>> /\ row_parses(Head(rows))
    THEN 1 + rows_parsed(Tail(rows))
    ELSE 0

\* The list the for loop has built when it ends or raises.
rows_loop(rows) == [i \in 1..rows_parsed(rows) |-> row_record(rows[i])]

\* The characters of each sort key that occurs: of the datetime string of
\* each text that parses.
KeyChars ==
    {datetime_isoformat(parse(text)) : text \in {t \in DateTexts : parse(t).ok}}

SortKeys == {Join(k) : k \in KeyChars}

Chars == [key \in SortKeys |-> CHOOSE k \in KeyChars : Join(k) = key]

\* The comparison a <= b of two sort keys, as the sort evaluates it.
KeyLessEq == [a \in SortKeys, b \in SortKeys |-> StrLessEq(Chars[a], Chars[b])]

\* One step of a stable ascending sort: r goes after every element whose
\* key is not greater than its own.
RECURSIVE insert_sorted(_, _)
insert_sorted(sorted, r) ==
    IF sorted = <<>> THEN <<r>>
    ELSE IF KeyLessEq[Head(sorted).datetime, r.datetime]
    THEN <<Head(sorted)>> \o insert_sorted(Tail(sorted), r)
    ELSE <<r>> \o sorted

\* A stable sort by record["datetime"], ascending.
RECURSIVE stable_sort(_)
stable_sort(list) ==
    IF list = <<>> THEN <<>>
    ELSE insert_sorted(stable_sort(Take(list, Len(list) - 1)), list[Len(list)])

\* A sort that forgets reverse=True: ascending.
sort_ascending(list) == stable_sort(list)

\* A descending sort made by reversing an ascending one: equal keys end up
\* in the opposite of their original order.
sort_unstable(list) == Reverse(stable_sort(list))

\* list.sort(key=lambda record: record["datetime"], reverse=True) and
\* sorted(..., reverse=True): Python reverses the list, sorts it stably in
\* ascending order and reverses the result, so equal keys keep their order.
sort_reverse(list) == Reverse(stable_sort(Reverse(list)))

\* The for loop and the sort of scrape_table on the rows of a page: whether
\* every row was normalized, the list built, and that list sorted.
normalized(rows, list) ==
    [complete |-> Len(list) = Len(rows),
     list     |-> list,
     sorted   |-> sort_reverse(list)]

normalize(rows) == normalized(rows, rows_loop(rows))

----------------------------------------------------------------------------
(* Serialization.  No text of the model holds a character that json or csv *)
(* would escape or quote.                                                  *)

\* record[name]
field_text(r, name) ==
    CASE name = "id"        -> r.id
      [] name = "datetime"  -> r.datetime
      [] name = "date"      -> r.date
      [] name = "time"      -> r.time
      [] name = "latitude"  -> r.latitude
      [] name = "longitude" -> r.longitude
      [] name = "depth"     -> r.depth
      [] name = "type"      -> r.type
      [] name = "magnitude" -> r.magnitude
      [] name = "region"    -> r.region

\* sep.join(items)
RECURSIVE str_join(_, _)
str_join(sep, items) ==
    IF items = <<>> THEN ""
    ELSE IF Len(items) = 1 THEN items[1]
    ELSE items[1] \o sep \o str_join(sep, Tail(items))

json_object(r) ==
    "{" \o str_join(", ", [i \in DOMAIN FieldNames |->
            "\"" \o FieldNames[i] \o "\": \"" \o field_text(r, FieldNames[i])
                \o "\""])
        \o "}"

\* json.dumps(list, ensure_ascii=False)
json_dumps(list) ==
    "[" \o str_join(", ", [i \in DOMAIN list |-> json_object(list[i])]) \o "]"

csv_line(fields) == str_join(",", fields) \o "\r\n"

\* What DictWriter.writeheader() and writerows(list) write.
csv_text(columns, list) ==
    csv_line(columns)
        \o str_join("", [i \in DOMAIN list |->
               csv_line([j \in DOMAIN columns |->
                   field_text(list[i], columns[j])])])

----------------------------------------------------------------------------
(* Calls, outcomes and effects.                                            *)

\* The messages of the ValueErrors the two classes raise.
NoDataMsg == "No data found. Run scrape_table() first."

EmptyDataMsg == "Cannot export empty data."

BadTypeMsg == "type must be either 'file' or 'string'."

NoTableMsg == "Data table was not found. Check the URL or file a bug."

LegacyNoTableMsg == "Table was not found. Check the URL or file a bug."

BadStatusMsg == "Non-success status code returned"

\* What a call hands back: nothing when it raised, else its return value.
Raised == [kind |-> "raised"]

ReturnsNone == [kind |-> "None"]

ReturnsSelf == [kind |-> "self"]

ReturnsList(list) == [kind |-> "list", list |-> list]

ReturnsStr(str) == [kind |-> "str", str |-> str]

ReturnsInt(n) == [kind |-> "int", n |-> n]

\* The arguments a call may be given.
ExportTypes == {"file", "string", "xml"}

FileNames == {<<>>, <<"q", ".", "j", "s", "o", "n">>}

\* The legacy export_csv is called with its default file_name (None) only.
LegacyFileNames == {<<>>}

Directories == {<<>>, <<"d">>}

NoArgs == [type |-> "", file_name |-> <<>>, directory |-> <<>>]

\* The keyword arguments of export_json: file_name and directory are only
\* used (and only varied here) when type is "file".
ExportJsonArgs ==
    {[type |-> type, file_name |-> <<>>, directory |-> <<>>] :
        type \in ExportTypes}
    \cup {[type |-> "file", file_name |-> file_name, directory |-> directory] :
            file_name \in FileNames, directory \in Directories}

\* datetime.now().isoformat(), the clock being outside the program.
now_isoformat ==
    <<"2","0","2","4","-","0","3","-","1","7","T","1","2",":","0","0",":",
      "0","0",".","0","0","0","0","0","1">>

EndsWith(str, suffix) ==
    /\ Len(suffix) <= Len(str)
    /\ Drop(str, Len(str) - Len(suffix)) = suffix

\* Effects on the file system, in the order a call performs them.
Mkdir(path) == [do |-> "mkdir", path |-> Join(path), text |-> ""]

OpenW(path) == [do |-> "open_w", path |-> Join(path), text |-> ""]

Write(path, text) == [do |-> "write", path |-> Join(path), text |-> text]

\* The path _prepare_file_path returns and the effects it has: it creates
\* the directory (mkdir(parents=True, exist_ok=True)) when one is given.
_prepare_file_path(file_type, file_name, directory) ==
    LET dir  == IF directory = <<>> THEN <<>>
                ELSE IF EndsWith(directory, <<"/">>) THEN directory
                ELSE directory \o <<"/">>
        ext  == <<".">> \o file_type
        name == IF file_name # <<>>
                THEN IF EndsWith(file_name, ext) THEN file_name
                     ELSE file_name \o ext
                ELSE <<"a","f","a","d","-","e","a","r","t","h","q","u","a",
                       "k","e","s","-","e","x","p","o","r","t","-">>
                         \o now_isoformat \o ext
    IN  [path    |-> dir \o name,
         effects |-> IF directory = <<>> THEN <<>> ELSE <<Mkdir(dir)>>]

\* The record of a call: its name and arguments, the response its GET
\* received and the number of GETs it issued, the stages of the pipeline it
\* ran, the exception it raised ("ok": none) with its message, what it
\* returned, and its effects on the file system.
Call(op, args, response, gets, stages, outcome, msg, ret, fs) ==
    [op |-> op, args |-> args, response |-> response, gets |-> gets,
     stages |-> stages, outcome |-> outcome, msg |-> msg, ret |-> ret,
     fs |-> fs]

\* A call that touches neither the network nor the file system.
LocalCall(op, args, outcome, msg, ret) ==
    Call(op, args, NoResponse, 0, <<>>, outcome, msg, ret, <<>>)

----------------------------------------------------------------------------
(* src/afad_earthquake_scraper.py                                          *)

None == [none |-> TRUE, list |-> <<>>]

List(list) == [none |-> FALSE, list |-> list]

\* A scrape_table that does not start from an empty list: the records of
\* the page are merged into those already cached.
scrape_data_merged(d, r, n) ==
    IF ~r.ok \/ r.content.table = "absent" THEN d
    ELSE IF r.content.table = "no_tbody" THEN List(d.list)
    ELSE IF ~n.complete THEN List(d.list \o n.list)
    ELSE List(sort_reverse(d.list \o n.list))

\* The value of self._data when scrape_table returns or raises, the cache
\* being d when it is called, r the response and n the outcome of the loop
\* and the sort on its rows.
scrape_data(d, r, n) ==
    IF ~r.ok \/ r.content.table = "absent" THEN d
    ELSE IF r.content.table = "no_tbody" THEN List(<<>>)
    ELSE IF ~n.complete THEN List(n.list)
    ELSE List(n.sorted)

\* What the scrape_table call does and how it ends.
scrape_call(r, n) ==
    IF ~r.ok
    THEN Call("scrape_table", NoArgs, r, 1, <<"get">>,
              "HTTPError", BadStatusMsg, Raised, <<>>)
    ELSE IF r.content.table = "absent"
    THEN Call("scrape_table", NoArgs, r, 1, <<"get", "find">>,
              "ValueError", NoTableMsg, Raised, <<>>)
    ELSE IF r.content.table = "no_tbody"
    THEN Call("scrape_table", NoArgs, r, 1, <<"get", "find">>,
              "AttributeError", "", Raised, <<>>)
    ELSE IF ~n.complete
    THEN Call("scrape_table", NoArgs, r, 1, <<"get", "find", "rows">>,
              "ParserError", "", Raised, <<>>)
    ELSE Call("scrape_table", NoArgs, r, 1,
              <<"get", "find", "rows", "sort">>,
              "ok", "", ReturnsSelf, <<>>)

scrape_table(r) ==
    /\ variant = "primary"
    /\ _data' = scrape_data(_data, r, normalize(r.content.rows))
    /\ last' = scrape_call(r, normalize(r.content.rows))
    /\ scraped' = IF last'.outcome = "ok" THEN "latest"
                  ELSE IF scraped = "never" THEN "never"
                  ELSE "earlier"
    /\ UNCHANGED variant

\* The property self.results: it raises when self._data is None.
results ==
    /\ variant = "primary"
    /\ last' =
        IF _data.none
        THEN LocalCall("results", NoArgs, "ValueError", NoDataMsg, Raised)
        ELSE LocalCall("results", NoArgs, "ok", "", ReturnsList(_data.list))
    /\ UNCHANGED <<variant, _data, scraped>>

\* The property self.length: len(self.results).
length ==
    /\ variant = "primary"
    /\ last' =
        IF _data.none
        THEN LocalCall("length", NoArgs, "ValueError", NoDataMsg, Raised)
        ELSE LocalCall("length", NoArgs, "ok", "",
                       ReturnsInt(Len(_data.list)))
    /\ UNCHANGED <<variant, _data, scraped>>

\* export_json with arguments args; prep is what _prepare_file_path gives
\* for them.  With type "file" the file is opened for writing before
\* self.results is read.
json_call(d, args, prep) ==
    IF args.type \notin {"file", "string"}
    THEN LocalCall("export_json", args, "ValueError", BadTypeMsg, Raised)
    ELSE IF args.type = "string"
    THEN IF d.none
         THEN LocalCall("export_json", args, "ValueError", NoDataMsg, Raised)
         ELSE LocalCall("export_json", args, "ok", "",
                        ReturnsStr(json_dumps(d.list)))
    ELSE IF d.none
    THEN Call("export_json", args, NoResponse, 0, <<>>,
              "ValueError", NoDataMsg, Raised,
              prep.effects \o <<OpenW(prep.path)>>)
    ELSE Call("export_json", args, NoResponse, 0, <<>>,
              "ok", "", ReturnsNone,
              prep.effects \o <<OpenW(prep.path),
                                Write(prep.path, json_dumps(d.list))>>)

export_json(args) ==
    /\ variant = "primary"
    /\ last' = json_call(
                   _data, args,
                   _prepare_file_path(<<"j", "s", "o", "n">>, args.file_name,
                                      args.directory))
    /\ UNCHANGED <<variant, _data, scraped>>

\* export_csv: self.results is read (and found non-empty) before the file
\* path is prepared; the columns are the keys of the first record.
csv_call(d, args, prep) ==
    IF d.none
    THEN LocalCall("export_csv", args, "ValueError", NoDataMsg, Raised)
    ELSE IF d.list = <<>>
    THEN LocalCall("export_csv", args, "ValueError", EmptyDataMsg, Raised)
    ELSE Call("export_csv", args, NoResponse, 0, <<>>,
              "ok", "", ReturnsNone,
              prep.effects \o <<OpenW(prep.path),
                                Write(prep.path,
                                      csv_text(FieldNames, d.list))>>)

export_csv(file_name, directory) ==
    /\ variant = "primary"
    /\ last' = csv_call(
                   _data,
                   [type |-> "", file_name |-> file_name,
                    directory |-> directory],
                   _prepare_file_path(<<"c", "s", "v">>, file_name, directory))
    /\ UNCHANGED <<variant, _data, scraped>>

----------------------------------------------------------------------------
(* src/afad_earthquakes_scraper.py                                         *)

\* What the legacy scrape_table does with the response of its GET, n being
\* the outcome of the loop and the sort on its rows; the status of the
\* response is not looked at.
legacy_scrape(r, n) ==
    IF r.content.table = "absent"
    THEN [outcome |-> "ValueError", msg |-> LegacyNoTableMsg,
          stages |-> <<"get", "find">>, list |-> <<>>]
    ELSE IF r.content.table = "no_tbody"
    THEN [outcome |-> "AttributeError", msg |-> "",
          stages |-> <<"get", "find">>, list |-> <<>>]
    ELSE IF ~n.complete
    THEN [outcome |-> "ParserError", msg |-> "",
          stages |-> <<"get", "find", "rows">>, list |-> <<>>]
    ELSE [outcome |-> "ok", msg |-> "",
          stages |-> <<"get", "find", "rows", "sort">>,
          list |-> n.sorted]

legacy_scrape_call(r, s) ==
    Call("scrape_table", NoArgs, r, 1, s.stages, s.outcome, s.msg,
         IF s.outcome = "ok" THEN ReturnsList(s.list) ELSE Raised, <<>>)

legacy_scrape_table(r) ==
    /\ variant = "legacy"
    /\ last' = legacy_scrape_call(r, legacy_scrape(r, normalize(r.content.rows)))
    /\ UNCHANGED <<variant, _data, scraped>>

\* json.dumps(self.scrape_table(), ensure_ascii=False)
legacy_json_call(r, s) ==
    Call("export_json", NoArgs, r, 1, s.stages, s.outcome, s.msg,
         IF s.outcome = "ok" THEN ReturnsStr(json_dumps(s.list)) ELSE Raised,
         <<>>)

legacy_export_json(r) ==
    /\ variant = "legacy"
    /\ last' = legacy_json_call(r, legacy_scrape(r, normalize(r.content.rows)))
    /\ UNCHANGED <<variant, _data, scraped>>

\* The file export_csv opens: file_name, or a timestamped name.
legacy_csv_path(file_name) ==
    IF file_name # <<>> THEN file_name
    ELSE <<"e","a","r","t","h","q","u","a","k","e","s","-","e","x","p","o",
           "r","t","-">> \o now_isoformat \o <<".", "c", "s", "v">>

\* table_data = self.scrape_table(); table_data[0] raises IndexError on an
\* empty list, before the file is opened.
legacy_csv_call(r, s, args, path) ==
    IF s.outcome # "ok"
    THEN Call("export_csv", args, r, 1, s.stages, s.outcome, s.msg,
              Raised, <<>>)
    ELSE IF s.list = <<>>
    THEN Call("export_csv", args, r, 1, s.stages, "IndexError", "",
              Raised, <<>>)
    ELSE Call("export_csv", args, r, 1, s.stages, "ok", "", ReturnsNone,
              <<OpenW(path), Write(path, csv_text(FieldNames, s.list))>>)

legacy_export_csv(r, file_name) ==
    /\ variant = "legacy"
    /\ last' = legacy_csv_call(
                   r, legacy_scrape(r, normalize(r.content.rows)),
                   [type |-> "", file_name |-> file_name, directory |-> <<>>],
                   legacy_csv_path(file_name))
    /\ UNCHANGED <<variant, _data, scraped>>

----------------------------------------------------------------------------
(* The state machine: one instance, any sequence of calls on it.           *)

\* __init__: no data yet (the legacy class has no such attribute at all).
Init ==
    /\ variant \in {"primary", "legacy"}
    /\ _data = None
    /\ scraped = "never"
    /\ last = LocalCall("__init__", NoArgs, "ok", "", ReturnsNone)

Next ==
    \/ \E r \in Responses : scrape_table(r)
    \/ results
    \/ length
    \/ \E args \in ExportJsonArgs : export_json(args)
    \/ \E file_name \in FileNames, directory \in Directories :
            export_csv(file_name, directory)
    \/ \E r \in Responses : legacy_scrape_table(r)
    \/ \E r \in Responses : legacy_export_json(r)
    \/ \E r \in Responses, file_name \in LegacyFileNames :
            legacy_export_csv(r, file_name)

Spec == Init /\ [][Next]_vars

----------------------------------------------------------------------------
(* Properties.                                                             *)

Primary == variant = "primary"

Legacy == variant = "legacy"

\* The rows of the page the last call fetched.
PageRows == last.response.content.rows

ScrapeReturned == last.op = "scrape_table" /\ last.outcome = "ok"

\* The list a scrape_table call that returned has produced: the cache of
\* the primary class, the return value of the legacy one.
ScrapeResult == IF Primary THEN _data.list ELSE last.ret.list

\* The text the last call wrote to the file it opened.
WrittenText == last.fs[Len(last.fs)].text

Ids(list) == [i \in DOMAIN list |-> list[i].id]

Count(x, list) == Cardinality({i \in DOMAIN list : list[i] = x})

IsPermutation(a, b) ==
    /\ Len(a) = Len(b)
    /\ \A i \in DOMAIN a : Count(a[i], a) = Count(a[i], b)

\* r1.datetime >= r2.datetime for all adjacent r1, r2, as Python compares str.
Descending(list) ==
    \A i \in 1..(Len(list) - 1) :
        StrLessEq(Chars[list[i + 1].datetime], Chars[list[i].datetime])

\* list holds exactly the records of a non-empty, proper part of the rows.
BuiltFromSomeOf(list, rows) ==
    \E S \in SUBSET DOMAIN rows :
        /\ S # {} /\ S # DOMAIN rows
        /\ \A i \in S : row_parses(rows[i])
        /\ Len(list) = Cardinality(S)
        /\ \A i \in S : \E j \in DOMAIN list : list[j] = row_record(rows[i])

\* C1: when a row of the page cannot be normalized, scrape_table raises and
\* afterwards the instance yields no record list built from only some of
\* the rows of that page.
C1_NoPartialResult ==
    (last.op = "scrape_table" /\ last.outcome = "ParserError") =>
        /\ last.ret = Raised
        /\ Primary => (_data.none \/ ~BuiltFromSomeOf(_data.list, PageRows))

\* C2: as long as no scrape_table call has returned, results, length,
\* export_json (type "string" or "file") and export_csv raise the ValueError
\* "No data found. Run scrape_table() first." and return nothing.
C2_StateErrorBeforeScrape ==
    (/\ Primary /\ scraped = "never"
     /\ \/ last.op \in {"results", "length", "export_csv"}
        \/ last.op = "export_json" /\ last.args.type \in {"file", "string"})
    => (/\ last.outcome = "ValueError" /\ last.msg = NoDataMsg
        /\ last.ret = Raised)

\* C3: when the latest scrape_table call returned, the list results returns
\* is in descending order of datetime (compared as strings), and
\* export_json and export_csv emit the records in that same order.
C3_DescendingOrder ==
    /\ ScrapeReturned => Descending(ScrapeResult)
    /\ (Primary /\ scraped = "latest") =>
        /\ Descending(_data.list)
        /\ last.op = "results" =>
              last.outcome = "ok" /\ last.ret = ReturnsList(_data.list)
        /\ (last.op = "export_json" /\ last.args.type = "string") =>
              last.ret = ReturnsStr(json_dumps(_data.list))
        /\ (last.op = "export_json" /\ last.args.type = "file") =>
              last.outcome = "ok" /\ WrittenText = json_dumps(_data.list)
        /\ (last.op = "export_csv" /\ last.outcome = "ok") =>
              WrittenText = csv_text(FieldNames, _data.list)
    /\ (Legacy /\ last.outcome = "ok"
            /\ last.op \in {"export_json", "export_csv"}) =>
        \E p \in Permutations(DOMAIN PageRows) :
            LET list == [i \in DOMAIN PageRows |-> row_record(PageRows[p[i]])]
            IN  /\ Descending(list)
                /\ last.op = "export_json" =>
                      last.ret = ReturnsStr(json_dumps(list))
                /\ last.op = "export_csv" =>
                      WrittenText = csv_text(FieldNames, list)

W3_DescendingOrder ==
    /\ Primary /\ scraped = "latest"
    /\ last.op = "results" /\ last.outcome = "ok"
    /\ Ids(last.ret.list) = <<"C", "B", "A">>
    /\ last.ret.list[1].datetime # last.ret.list[2].datetime
    /\ last.ret.list[2].datetime # last.ret.list[3].datetime

\* C4: of two rows of the page with the same datetime string, the record of
\* the earlier row precedes the record of the later row in the result of a
\* scrape_table call that returned.
C4_StableTieBreak ==
    ScrapeReturned =>
        \A i, j \in DOMAIN PageRows :
            (i < j /\ row_record(PageRows[i]).datetime
                        = row_record(PageRows[j]).datetime) =>
                \E a, b \in DOMAIN ScrapeResult :
                    /\ a < b
                    /\ ScrapeResult[a] = row_record(PageRows[i])
                    /\ ScrapeResult[b] = row_record(PageRows[j])

W4_StableTieBreak ==
    /\ ScrapeReturned
    /\ [i \in DOMAIN PageRows |-> PageRows[i][1]]
           = <<Text_17_101500, Text_17_101500, Text_16_090000>>
    /\ Ids(ScrapeResult) = <<"A", "B", "C">>

\* C5: after every scrape_table call that returned, the cache is a
\* permutation of the records of the rows of the page that call fetched,
\* one record per row; results returns that list and length its length.
C5_CacheIsLatestPage ==
    Primary =>
        /\ ScrapeReturned =>
            /\ Len(_data.list) = Len(PageRows)
            /\ IsPermutation(_data.list,
                             [i \in DOMAIN PageRows |-> row_record(PageRows[i])])
        /\ (scraped = "latest" /\ last.op = "results") =>
              last.ret = ReturnsList(_data.list)
        /\ (scraped = "latest" /\ last.op = "length") =>
              last.ret = ReturnsInt(Len(_data.list))

W5_CacheIsLatestPage ==
    /\ Primary /\ scraped = "latest"
    /\ last.op = "length" /\ last.ret = ReturnsInt(2)
    /\ Ids(_data.list) = <<"B", "A">>

\* C6: when the response to the GET of scrape_table is not a success,
\* scrape_table raises HTTPError after that one GET, without locating the
\* table or normalizing rows, and returns nothing.
C6_TransportErrorSurfaced ==
    (last.op = "scrape_table" /\ ~last.response.ok) =>
        /\ last.outcome = "HTTPError"
        /\ last.gets = 1 /\ last.stages = <<"get">>
        /\ last.ret = Raised

\* C7: export_json and export_csv issue no HTTP request; they serialize the
\* record list the last scrape produced.
C7_ExportDoesNotRefetch ==
    last.op \in {"export_json", "export_csv"} =>
        /\ last.gets = 0
        /\ last.stages = <<>>

\* The last call exported the result of a scrape that produced no record.
ExportedEmptyScrape ==
    IF Primary THEN scraped = "latest" /\ _data.list = <<>>
    ELSE last.response.content.table = "present" /\ PageRows = <<>>

\* C8: when a scrape that returned produced zero records, export_csv raises
\* the ValueError "Cannot export empty data." and export_json as a string
\* returns "[]".
C8_EmptyResultExports ==
    ExportedEmptyScrape =>
        /\ last.op = "export_csv" =>
              last.outcome = "ValueError" /\ last.msg = EmptyDataMsg
        /\ (last.op = "export_json" /\ (Legacy \/ last.args.type = "string"))
              => last.ret = ReturnsStr("[]")

\* The records the instance holds or has just returned.
ProducedRecords ==
    IF Primary THEN _data.list
    ELSE IF last.ret.kind = "list" THEN last.ret.list
    ELSE <<>>

\* C9: for every record scrape_table produces, date + "T" + time is the
\* record's datetime string.
C9_DateTimeRoundTrip ==
    \A i \in DOMAIN ProducedRecords :
        ProducedRecords[i].date \o "T" \o ProducedRecords[i].time
            = ProducedRecords[i].datetime

\* C10: an export_json or export_csv call that raises leaves the file
\* system as it was: it creates no directory and creates or truncates no
\* file.
C10_FailingExportNoFsEffect ==
    (/\ last.op \in {"export_json", "export_csv"}
     /\ last.outcome = "ValueError"
     /\ last.msg \in {NoDataMsg, BadTypeMsg, EmptyDataMsg})
    => last.fs = <<>>

====
